---- MODULE Spec2Model ----
(***************************************************************************)
(* A model of the retrieval subsystem of internal-docs-rag:                *)
(*   src/src/ingest.py       clean_markdown_text, split_into_chunks,       *)
(*                           ingest_raw_documents                          *)
(*   src/src/build_index.py  build_index                                   *)
(*   src/src/retriever.py    load_faiss_index, retrieve_documents          *)
(*                                                                         *)
(* Text is a sequence of one-character strings, so that the regular        *)
(* expressions of ingest.py are modelled by what they match.  Embedding    *)
(* vectors are 2-dimensional integer vectors of Euclidean norm 5 (unit     *)
(* vectors in fixed point), and scores are their inner products.           *)
(***************************************************************************)
EXTENDS Integers, Sequences, FiniteSets, TLC

VARIABLES
    c_pc, c_text, c_once, c_twice,          \* clean_markdown_text applied twice
    s_pc, s_text, s_size, s_chunks, s_per_section,
                                            \* split_into_chunks applied once
    embFile, docsFile, indexFile,           \* the three persisted artifacts
    b_pc, b_run, b_dir, b_documents, b_embeddings, b_error, b_before,
                                            \* one build_index run
    r_pc, r_query, r_top_k, r_index, r_documents, r_labels, r_results, r_error
                                            \* one retrieve_documents call

cleanVars == <<c_pc, c_text, c_once, c_twice>>
chunkVars == <<s_pc, s_text, s_size, s_chunks, s_per_section>>
diskVars  == <<embFile, docsFile, indexFile>>
buildVars == <<b_pc, b_run, b_dir, b_documents, b_embeddings, b_error, b_before>>
retVars   == <<r_pc, r_query, r_top_k, r_index, r_documents, r_labels, r_results, r_error>>
vars      == <<cleanVars, chunkVars, diskVars, buildVars, retVars>>

(***************************************************************************)
(* Characters and small helpers                                            *)
(***************************************************************************)
NL  == "\n"
TAB == "\t"
SP  == " "

\* str.strip(), str.split() and the regex class \s: whitespace characters
IsSpace(c) == c \in {SP, TAB, NL}

\* the regex class [ \t]
IsHSpace(c) == c \in {SP, TAB}

MinOf(S) == CHOOSE x \in S : \A y \in S : x <= y

\* the Python expression c * n for a one-character string c
Rep(c, n) == [i \in 1..n |-> c]

\* text[i - 1:] (positions are 1-based here)
From(t, i) == SubSeq(t, i, Len(t))

RECURSIVE Concat(_)
\* "".join(parts)
Concat(parts) == IF parts = <<>> THEN <<>> ELSE Head(parts) \o Concat(Tail(parts))

\* re.IGNORECASE on the letters of the artifact token
Lower(c) ==
    CASE c = "H" -> "h" [] c = "E" -> "e" [] c = "A" -> "a" [] c = "D" -> "d"
      [] c = "R" -> "r" [] c = "L" -> "l" [] c = "I" -> "i" [] c = "N" -> "n"
      [] c = "K" -> "k" [] OTHER -> c

(***************************************************************************)
(* ingest.py: clean_markdown_text                                          *)
(***************************************************************************)
\* re.sub(r"\{#.*?\}", ...): the end of the shortest anchor opening at i
\* ("." matches no newline), or 0 when no anchor opens at i
AnchorEnd(t, i) ==
    IF ~(i + 1 <= Len(t) /\ t[i] = "{" /\ t[i + 1] = "#") THEN 0
    ELSE LET ends == {j \in (i + 2)..Len(t) :
                        /\ t[j] = "}"
                        /\ \A m \in (i + 2)..(j - 1) : t[m] # NL}
         IN  IF ends = {} THEN 0 ELSE MinOf(ends)

RECURSIVE RemoveAnchorsFrom(_, _)
\* the scan from i: copy up to the leftmost anchor, drop it, go on after it
RemoveAnchorsFrom(t, i) ==
    LET starts == {p \in i..Len(t) : AnchorEnd(t, p) # 0}
    IN  IF starts = {} THEN From(t, i)
        ELSE SubSeq(t, i, MinOf(starts) - 1)
                 \o RemoveAnchorsFrom(t, AnchorEnd(t, MinOf(starts)) + 1)

\* text = re.sub(r"\{#.*?\}", "", text)
RemoveAnchors(t) == RemoveAnchorsFrom(t, 1)

HeaderLinkToken == <<"h", "e", "a", "d", "e", "r", "l", "i", "n", "k">>

HeaderLinkAt(t, i) ==
    /\ i + Len(HeaderLinkToken) - 1 <= Len(t)
    /\ \A k \in 1..Len(HeaderLinkToken) : Lower(t[i + k - 1]) = HeaderLinkToken[k]

RECURSIVE RemoveHeaderLinkFrom(_, _)
RemoveHeaderLinkFrom(t, i) ==
    LET starts == {p \in i..Len(t) : HeaderLinkAt(t, p)}
    IN  IF starts = {} THEN From(t, i)
        ELSE SubSeq(t, i, MinOf(starts) - 1)
                 \o RemoveHeaderLinkFrom(t, MinOf(starts) + Len(HeaderLinkToken))

\* text = re.sub(r"headerlink", "", text, flags=re.IGNORECASE)
RemoveHeaderLink(t) == RemoveHeaderLinkFrom(t, 1)

\* the length of the maximal run of characters satisfying the class at i
RECURSIVE NewlineRun(_, _)
NewlineRun(t, i) == IF i <= Len(t) /\ t[i] = NL THEN 1 + NewlineRun(t, i + 1) ELSE 0

RECURSIVE HSpaceRun(_, _)
HSpaceRun(t, i) == IF i <= Len(t) /\ IsHSpace(t[i]) THEN 1 + HSpaceRun(t, i + 1) ELSE 0

RECURSIVE CollapseNewlinesFrom(_, _)
CollapseNewlinesFrom(t, i) ==
    LET starts == {p \in i..Len(t) : NewlineRun(t, p) >= 3}
    IN  IF starts = {} THEN From(t, i)
        ELSE SubSeq(t, i, MinOf(starts) - 1) \o <<NL, NL>>
                 \o CollapseNewlinesFrom(t, MinOf(starts) + NewlineRun(t, MinOf(starts)))

\* text = re.sub(r"\n{3,}", "\n\n", text)
CollapseNewlines(t) == CollapseNewlinesFrom(t, 1)

RECURSIVE CollapseHSpaceFrom(_, _)
CollapseHSpaceFrom(t, i) ==
    LET starts == {p \in i..Len(t) : IsHSpace(t[p])}
    IN  IF starts = {} THEN From(t, i)
        ELSE SubSeq(t, i, MinOf(starts) - 1) \o <<SP>>
                 \o CollapseHSpaceFrom(t, MinOf(starts) + HSpaceRun(t, MinOf(starts)))

\* text = re.sub(r"[ \t]+", " ", text)
CollapseHSpace(t) == CollapseHSpaceFrom(t, 1)

\* str.strip()
Strip(t) ==
    LET keep == {i \in 1..Len(t) : ~IsSpace(t[i])}
    IN  IF keep = {} THEN <<>>
        ELSE SubSeq(t, MinOf(keep), CHOOSE i \in keep : \A j \in keep : j <= i)

clean_markdown_text(t) ==
    Strip(CollapseHSpace(CollapseNewlines(RemoveHeaderLink(RemoveAnchors(t)))))

(***************************************************************************)
(* ingest.py: split_into_chunks                                            *)
(***************************************************************************)
MinChunkChars == 50

RECURSIVE HashRun(_, _)
HashRun(t, i) == IF i <= Len(t) /\ t[i] = "#" THEN 1 + HashRun(t, i + 1) ELSE 0

\* the length of the match of r"\n##+\s" at i, or 0 when it does not match there
HeaderMatch(t, i) ==
    IF i <= Len(t) /\ t[i] = NL
    THEN LET h == HashRun(t, i + 1)
         IN  IF h >= 2 /\ i + 1 + h <= Len(t) /\ IsSpace(t[i + 1 + h])
             THEN h + 2 ELSE 0
    ELSE 0

RECURSIVE SplitSectionsFrom(_, _)
\* the scan from i: the text up to the leftmost match is one section
SplitSectionsFrom(t, i) ==
    LET starts == {p \in i..Len(t) : HeaderMatch(t, p) # 0}
    IN  IF starts = {} THEN <<From(t, i)>>
        ELSE <<SubSeq(t, i, MinOf(starts) - 1)>>
                 \o SplitSectionsFrom(t, MinOf(starts) + HeaderMatch(t, MinOf(starts)))

\* sections = re.split(r"\n##+\s", text)
SplitSections(t) == SplitSectionsFrom(t, 1)

RECURSIVE SplitWordsFrom(_, _)
\* the scan from i: skip whitespace, take the word up to the next whitespace
SplitWordsFrom(t, i) ==
    LET starts == {p \in i..Len(t) : ~IsSpace(t[p])}
    IN  IF starts = {} THEN <<>>
        ELSE LET a == MinOf(starts)
                 stops == {p \in a..Len(t) : IsSpace(t[p])}
                 b == IF stops = {} THEN Len(t) + 1 ELSE MinOf(stops)
             IN  <<SubSeq(t, a, b - 1)>> \o SplitWordsFrom(t, b)

\* words = section.split()
SplitWords(t) == SplitWordsFrom(t, 1)

RECURSIVE JoinSpace(_)
\* " ".join(words)
JoinSpace(words) ==
    IF words = <<>> THEN <<>>
    ELSE IF Len(words) = 1 THEN Head(words)
    ELSE Head(words) \o <<SP>> \o JoinSpace(Tail(words))

\* a slice that stops one word early: words[a:b - 1]
SliceShort(words, a, b) ==
    SubSeq(words, a + 1, IF b - 1 < Len(words) THEN b - 1 ELSE Len(words))

\* words[a:b] for 0 <= a <= b (a Python slice, clipped to the list)
Slice(words, a, b) ==
    SubSeq(words, a + 1, IF b < Len(words) THEN b ELSE Len(words))

\* the threshold off by one: len(chunk.strip()) >= 50
KeepChunkInclusive(chunk) == Len(Strip(chunk)) >= MinChunkChars

\* if len(chunk.strip()) > 50
KeepChunk(chunk) == Len(Strip(chunk)) > MinChunkChars

\* the next value of range(0, len(words), chunk_size)
NextStart(start, chunk_size) == start + chunk_size

RECURSIVE ChunksFrom(_, _, _)
\* the inner loop, from the window that opens at start (0-based)
ChunksFrom(words, start, chunk_size) ==
    IF start >= Len(words) THEN <<>>
    ELSE LET chunk == JoinSpace(Slice(words, start, start + chunk_size))
         IN  (IF KeepChunk(chunk) THEN <<chunk>> ELSE <<>>)
                 \o ChunksFrom(words, NextStart(start, chunk_size), chunk_size)

\* one iteration of the outer loop: the chunks one section appends
SectionChunks(section, chunk_size) == ChunksFrom(SplitWords(section), 0, chunk_size)

RECURSIVE SectionsChunks(_, _)
SectionsChunks(sections, chunk_size) ==
    IF sections = <<>> THEN <<>>
    ELSE SectionChunks(Head(sections), chunk_size)
             \o SectionsChunks(Tail(sections), chunk_size)

split_into_chunks(t, chunk_size) == SectionsChunks(SplitSections(t), chunk_size)

(***************************************************************************)
(* Bounded inputs                                                          *)
(***************************************************************************)
\* every concatenation of at most n fragments
TextsOf(frags, n) ==
    {Concat(p) : p \in UNION {[1..k -> frags] : k \in 0..n}}

MaxCleanFrags == 3

CleanFrags ==
    { <<"{">>, <<"}">>, <<"{", "#", "a", "}">>, <<"#", "b", "}">>,
      <<"h", "e", "a", "d">>, <<"e", "r", "l", "i", "n", "k">>,
      <<"H", "e", "a", "d", "e", "r", "L", "i", "n", "k">>,
      <<NL>>, <<SP>>, <<TAB>>, <<"x">> }

MaxChunkFrags == 4
MaxWords == 2

ChunkFrags ==
    { Rep("a", 51), Rep("b", 25), Rep("c", 24), <<SP>>, <<NL, "#", "#", SP>> }

(***************************************************************************)
(* The cleaner applied twice to one text                                   *)
(***************************************************************************)
CleanIdle == c_pc = "idle" /\ c_text = <<>> /\ c_once = <<>> /\ c_twice = <<>>
ChunkIdle ==
    /\ s_pc = "idle" /\ s_text = <<>> /\ s_size = 1
    /\ s_chunks = <<>> /\ s_per_section = <<>>

CleanInit ==
    /\ c_pc = "start"
    /\ c_text \in TextsOf(CleanFrags, MaxCleanFrags)
    /\ c_once = <<>>
    /\ c_twice = <<>>

\* cleaned_text = clean_markdown_text(raw_text)
CleanFirst ==
    /\ c_pc = "start"
    /\ c_once' = clean_markdown_text(c_text)
    /\ c_pc' = "once"
    /\ UNCHANGED <<c_text, c_twice>>
    /\ UNCHANGED <<chunkVars, diskVars, buildVars, retVars>>

\* clean_markdown_text applied to its own output
CleanSecond ==
    /\ c_pc = "once"
    /\ c_twice' = clean_markdown_text(c_once)
    /\ c_pc' = "twice"
    /\ UNCHANGED <<c_text, c_once>>
    /\ UNCHANGED <<chunkVars, diskVars, buildVars, retVars>>

(***************************************************************************)
(* The chunker applied to one text                                         *)
(***************************************************************************)
ChunkInit ==
    /\ s_pc = "start"
    /\ s_text \in TextsOf(ChunkFrags, MaxChunkFrags)
    /\ s_size \in 1..MaxWords
    /\ s_chunks = <<>>
    /\ s_per_section = <<>>

\* chunks = split_into_chunks(text, chunk_size); s_per_section keeps what each
\* iteration of the outer loop appended
SplitIntoChunks ==
    /\ s_pc = "start"
    /\ s_chunks' = split_into_chunks(s_text, s_size)
    /\ s_per_section' =
           [k \in 1..Len(SplitSections(s_text)) |->
               SectionChunks(SplitSections(s_text)[k], s_size)]
    /\ s_pc' = "done"
    /\ UNCHANGED <<s_text, s_size>>
    /\ UNCHANGED <<cleanVars, diskVars, buildVars, retVars>>

(***************************************************************************)
(* ingest.py: ingest_raw_documents                                         *)
(***************************************************************************)
CHUNK_SIZE == 500

\* one file under RAW_DATA_DIR: its name's extension, its bytes read as text,
\* and whether those bytes decode as UTF-8
File(source, md, utf8, raw) == [source |-> source, md |-> md, utf8 |-> utf8, raw |-> raw]

\* the documents.append(...) loop over the chunks of one file
FileDocuments(f) ==
    LET chunks == split_into_chunks(clean_markdown_text(f.raw), CHUNK_SIZE)
    IN  [i \in 1..Len(chunks) |-> [text |-> chunks[i], source |-> f.source]]

RECURSIVE IngestFrom(_, _)
\* the os.walk loop: read_markdown_file raises on the first undecodable file
IngestFrom(files, documents) ==
    IF files = <<>> THEN [error |-> "none", documents |-> documents]
    ELSE LET f == Head(files)
         IN  IF ~f.md THEN IngestFrom(Tail(files), documents)
             ELSE IF ~f.utf8
                  THEN [error |-> "UnicodeDecodeError", documents |-> <<>>]
             ELSE IngestFrom(Tail(files), documents \o FileDocuments(f))

ingest_raw_documents(files) == IngestFrom(files, <<>>)

(***************************************************************************)
(* Embedding provider and similarity index (external collaborators)        *)
(***************************************************************************)
UnitVecs == <<(<<5, 0>>), (<<4, 3>>), (<<0, 5>>)>>

VecSet == {UnitVecs[i] : i \in 1..Len(UnitVecs)}

\* SentenceTransformer.encode on one text: a fixed unit vector per text
Embed(text) == UnitVecs[(Len(text) % Len(UnitVecs)) + 1]

\* embedder.encode(texts, normalize_embeddings=True): one row per text
Encode(documents) == [i \in 1..Len(documents) |-> Embed(documents[i].text)]

\* inner product
Dot(u, v) == u[1] * v[1] + u[2] * v[2]

\* an add that loses the first row
IndexAddSkipsFirst(embeddings) == Tail(embeddings)

\* index = faiss.IndexFlatIP(dim); index.add(embeddings)
IndexAdd(embeddings) == embeddings

\* index.search(query, k) on a flat inner-product index: every label row an
\* exact search may return.  Labels are 0-based; the min(k, n) best vectors
\* come first by non-increasing score (ties in any order), and the rest of
\* the row is filled with -1.
SearchLabels(vecs, q, k) ==
    LET n == Len(vecs)
        m == IF k < n THEN k ELSE n
    IN  {lab \in [1..k -> (-1)..(n - 1)] :
            /\ \A j \in 1..m : lab[j] >= 0
            /\ \A j \in (m + 1)..k : lab[j] = -1
            /\ \A i, j \in 1..m :
                  i < j => /\ lab[i] # lab[j]
                           /\ Dot(q, vecs[lab[i] + 1]) >= Dot(q, vecs[lab[j] + 1])
            /\ \A l \in 0..(n - 1) :
                  (\A j \in 1..m : lab[j] # l)
                      => \A j \in 1..m : Dot(q, vecs[l + 1]) <= Dot(q, vecs[lab[j] + 1])}

\* documents[doc_index] raises IndexError outside -len .. len-1
PyIndexOk(list, i) == IF i >= 0 THEN i < Len(list) ELSE -i <= Len(list)

\* documents[doc_index]: a negative index counts from the end of the list
PyIndex(list, i) == IF i >= 0 THEN list[i + 1] ELSE list[Len(list) + i + 1]

(***************************************************************************)
(* The persisted artifacts                                                 *)
(***************************************************************************)
\* a path that does not exist
Missing == [state |-> "missing", run |-> 0, data |-> <<>>]

\* a file a failed write left truncated
Partial(run) == [state |-> "partial", run |-> run, data |-> <<>>]

\* a file written completely by build run `run`
Written(run, data) == [state |-> "ok", run |-> run, data |-> data]

Disk == [emb |-> embFile, docs |-> docsFile, index |-> indexFile]

(***************************************************************************)
(* build_index.py: build_index, one action per step                        *)
(***************************************************************************)
MaxBuilds == 2

RawOne == Rep("a", 51)
RawTwo ==
    Rep("b", 52) \o <<SP, "{", "#", "a", "}", NL, "#", "#", SP>> \o Rep("c", 53)
RawShort == <<"t", "o", "d", "o">>

FileOne   == File("one.md", TRUE, TRUE, RawOne)
FileTwo   == File("two.md", TRUE, TRUE, RawTwo)
FileShort == File("short.md", TRUE, TRUE, RawShort)
FileBad   == File("bad.md", TRUE, FALSE, <<>>)
FileTxt   == File("notes.txt", FALSE, FALSE, <<>>)

\* the states of RAW_DATA_DIR a run may find
SourceDirs ==
    { <<>>, <<FileTxt, FileShort>>, <<FileOne>>, <<FileOne, FileTxt, FileTwo>>,
      <<FileOne, FileBad>> }

\* documents = ingest_raw_documents(), for each state of the source directory
Ingested == [dir \in SourceDirs |-> ingest_raw_documents(dir)]

BuildIdle ==
    /\ b_pc = "idle" /\ b_run = 0 /\ b_dir = <<>> /\ b_documents = <<>>
    /\ b_embeddings = <<>> /\ b_error = "none"
    /\ b_before = [emb |-> Missing, docs |-> Missing, index |-> Missing]

\* python -m src.build_index: a run starts on the current source directory
BuildStart ==
    /\ b_pc = "idle"
    /\ b_run < MaxBuilds
    /\ b_run' = b_run + 1
    /\ b_dir' \in SourceDirs
    /\ b_before' = Disk
    /\ b_pc' = "ingest"
    /\ b_documents' = <<>>
    /\ b_embeddings' = <<>>
    /\ b_error' = "none"
    /\ UNCHANGED <<diskVars, retVars, cleanVars, chunkVars>>

\* documents = ingest_raw_documents() raises
IngestRaises ==
    /\ b_pc = "ingest"
    /\ Ingested[b_dir].error # "none"
    /\ b_error' = Ingested[b_dir].error
    /\ b_pc' = "failed"
    /\ UNCHANGED <<b_run, b_dir, b_documents, b_embeddings, b_before>>
    /\ UNCHANGED <<diskVars, retVars, cleanVars, chunkVars>>

\* the emptiness check left out: the run goes on with an empty corpus
IngestEmptyGoesOn ==
    /\ b_pc = "ingest"
    /\ Ingested[b_dir].error = "none"
    /\ Ingested[b_dir].documents = <<>>
    /\ b_documents' = <<>>
    /\ b_pc' = "embed"
    /\ UNCHANGED <<b_run, b_dir, b_embeddings, b_error, b_before>>
    /\ UNCHANGED <<diskVars, retVars, cleanVars, chunkVars>>

\* if not documents: raise RuntimeError("No documentation found. ...")
IngestEmpty ==
    /\ b_pc = "ingest"
    /\ Ingested[b_dir].error = "none"
    /\ Ingested[b_dir].documents = <<>>
    /\ b_error' = "RuntimeError"
    /\ b_pc' = "failed"
    /\ UNCHANGED <<b_run, b_dir, b_documents, b_embeddings, b_before>>
    /\ UNCHANGED <<diskVars, retVars, cleanVars, chunkVars>>

IngestOk ==
    /\ b_pc = "ingest"
    /\ Ingested[b_dir].error = "none"
    /\ Ingested[b_dir].documents # <<>>
    /\ b_documents' = Ingested[b_dir].documents
    /\ b_pc' = "embed"
    /\ UNCHANGED <<b_run, b_dir, b_embeddings, b_error, b_before>>
    /\ UNCHANGED <<diskVars, retVars, cleanVars, chunkVars>>

\* embedder = SentenceTransformer(...); embeddings = embedder.encode(texts, ...);
\* os.makedirs(PROCESSED_DATA_DIR, exist_ok=True)
EmbedOk ==
    /\ b_pc = "embed"
    /\ b_embeddings' = Encode(b_documents)
    /\ b_pc' = "save_embeddings"
    /\ UNCHANGED <<b_run, b_dir, b_documents, b_error, b_before>>
    /\ UNCHANGED <<diskVars, retVars, cleanVars, chunkVars>>

\* the model cannot be loaded, or the output directory cannot be made
EmbedRaises ==
    /\ b_pc = "embed"
    /\ b_error' = "OSError"
    /\ b_pc' = "failed"
    /\ UNCHANGED <<b_run, b_dir, b_documents, b_embeddings, b_before>>
    /\ UNCHANGED <<diskVars, retVars, cleanVars, chunkVars>>

\* np.save(EMBEDDINGS_PATH, embeddings)
SaveEmbeddings ==
    /\ b_pc = "save_embeddings"
    /\ embFile' = Written(b_run, b_embeddings)
    /\ b_pc' = "save_docs"
    /\ UNCHANGED <<b_run, b_dir, b_documents, b_embeddings, b_error, b_before>>
    /\ UNCHANGED <<docsFile, indexFile, retVars, cleanVars, chunkVars>>

\* np.save raises: before the file is opened, or with the file truncated
SaveEmbeddingsRaises ==
    /\ b_pc = "save_embeddings"
    /\ embFile' \in {embFile, Partial(b_run)}
    /\ b_error' = "OSError"
    /\ b_pc' = "failed"
    /\ UNCHANGED <<b_run, b_dir, b_documents, b_embeddings, b_before>>
    /\ UNCHANGED <<docsFile, indexFile, retVars, cleanVars, chunkVars>>

\* with open(DOCS_PATH, "wb") as f: pickle.dump(documents, f)
SaveDocs ==
    /\ b_pc = "save_docs"
    /\ docsFile' = Written(b_run, b_documents)
    /\ b_pc' = "write_index"
    /\ UNCHANGED <<b_run, b_dir, b_documents, b_embeddings, b_error, b_before>>
    /\ UNCHANGED <<embFile, indexFile, retVars, cleanVars, chunkVars>>

SaveDocsRaises ==
    /\ b_pc = "save_docs"
    /\ docsFile' \in {docsFile, Partial(b_run)}
    /\ b_error' = "OSError"
    /\ b_pc' = "failed"
    /\ UNCHANGED <<b_run, b_dir, b_documents, b_embeddings, b_before>>
    /\ UNCHANGED <<embFile, indexFile, retVars, cleanVars, chunkVars>>

\* index = faiss.IndexFlatIP(embedding_dim); index.add(embeddings);
\* faiss.write_index(index, INDEX_PATH)
WriteIndex ==
    /\ b_pc = "write_index"
    /\ indexFile' = Written(b_run, IndexAdd(b_embeddings))
    /\ b_pc' = "done"
    /\ UNCHANGED <<b_run, b_dir, b_documents, b_embeddings, b_error, b_before>>
    /\ UNCHANGED <<embFile, docsFile, retVars, cleanVars, chunkVars>>

WriteIndexRaises ==
    /\ b_pc = "write_index"
    /\ indexFile' \in {indexFile, Partial(b_run)}
    /\ b_error' = "OSError"
    /\ b_pc' = "failed"
    /\ UNCHANGED <<b_run, b_dir, b_documents, b_embeddings, b_before>>
    /\ UNCHANGED <<embFile, docsFile, retVars, cleanVars, chunkVars>>

\* the process of this run exits; the next run is a new process
BuildExit ==
    /\ b_pc \in {"done", "failed"}
    /\ b_pc' = "idle"
    /\ b_dir' = <<>>
    /\ b_documents' = <<>>
    /\ b_embeddings' = <<>>
    /\ b_error' = "none"
    /\ UNCHANGED <<b_run, b_before>>
    /\ UNCHANGED <<diskVars, retVars, cleanVars, chunkVars>>

Build ==
    \/ BuildStart \/ IngestRaises \/ IngestEmpty \/ IngestOk
    \/ EmbedOk \/ EmbedRaises
    \/ SaveEmbeddings \/ SaveEmbeddingsRaises
    \/ SaveDocs \/ SaveDocsRaises
    \/ WriteIndex \/ WriteIndexRaises
    \/ BuildExit

(***************************************************************************)
(* retriever.py: load_faiss_index and retrieve_documents, one action per   *)
(* step                                                                    *)
(***************************************************************************)
MaxTopK == 3

\* the value the query-serving layer passes (and the parameter's default)
DefaultTopK == 3

RetrieveIdle ==
    /\ r_pc = "idle" /\ r_query = <<0, 0>> /\ r_top_k = 0
    /\ r_index = Missing /\ r_documents = Missing
    /\ r_labels = <<>> /\ r_results = <<>> /\ r_error = "none"

\* retrieve_documents(query_embedding, top_k) is called
RetrieveStart ==
    /\ r_pc = "idle"
    /\ r_query' \in VecSet
    /\ r_top_k' \in 1..MaxTopK
    /\ r_pc' = "read_index"
    /\ UNCHANGED <<r_index, r_documents, r_labels, r_results, r_error>>
    /\ UNCHANGED <<diskVars, buildVars, cleanVars, chunkVars>>

\* app/ui.py: retrieved_docs = retrieve_documents(query_embedding, top_k=3)
ServeQuery ==
    /\ r_pc = "idle"
    /\ r_query' \in VecSet
    /\ r_top_k' = DefaultTopK
    /\ r_pc' = "read_index"
    /\ UNCHANGED <<r_index, r_documents, r_labels, r_results, r_error>>
    /\ UNCHANGED <<diskVars, buildVars, cleanVars, chunkVars>>

\* index = faiss.read_index(INDEX_PATH)
ReadIndex ==
    /\ r_pc = "read_index"
    /\ indexFile.state = "ok"
    /\ r_index' = indexFile
    /\ r_pc' = "read_docs"
    /\ UNCHANGED <<r_query, r_top_k, r_documents, r_labels, r_results, r_error>>
    /\ UNCHANGED <<diskVars, buildVars, cleanVars, chunkVars>>

\* faiss.read_index raises on a missing or truncated file
ReadIndexRaises ==
    /\ r_pc = "read_index"
    /\ indexFile.state # "ok"
    /\ r_error' = "IOError"
    /\ r_pc' = "raised"
    /\ UNCHANGED <<r_query, r_top_k, r_index, r_documents, r_labels, r_results>>
    /\ UNCHANGED <<diskVars, buildVars, cleanVars, chunkVars>>

\* with open(DOCS_PATH, "rb") as f: documents = pickle.load(f)
ReadDocs ==
    /\ r_pc = "read_docs"
    /\ docsFile.state = "ok"
    /\ r_documents' = docsFile
    /\ r_pc' = "search"
    /\ UNCHANGED <<r_query, r_top_k, r_index, r_labels, r_results, r_error>>
    /\ UNCHANGED <<diskVars, buildVars, cleanVars, chunkVars>>

ReadDocsRaises ==
    /\ r_pc = "read_docs"
    /\ docsFile.state # "ok"
    /\ r_error' = "IOError"
    /\ r_pc' = "raised"
    /\ UNCHANGED <<r_query, r_top_k, r_index, r_documents, r_labels, r_results>>
    /\ UNCHANGED <<diskVars, buildVars, cleanVars, chunkVars>>

\* scores, indices = index.search(query_embedding, top_k);
\* for doc_index in indices[0]: results.append(documents[doc_index])
Search ==
    /\ r_pc = "search"
    /\ \E lab \in SearchLabels(r_index.data, r_query, r_top_k) :
          /\ r_labels' = lab
          /\ IF \A j \in 1..r_top_k : PyIndexOk(r_documents.data, lab[j])
             THEN /\ r_results' = [j \in 1..r_top_k |-> PyIndex(r_documents.data, lab[j])]
                  /\ r_pc' = "returned"
                  /\ r_error' = "none"
             ELSE /\ r_results' = <<>>
                  /\ r_pc' = "raised"
                  /\ r_error' = "IndexError"
    /\ UNCHANGED <<r_query, r_top_k, r_index, r_documents>>
    /\ UNCHANGED <<diskVars, buildVars, cleanVars, chunkVars>>

\* the call is over; the next call loads the artifacts again
RetrieveExit ==
    /\ r_pc \in {"returned", "raised"}
    /\ r_pc' = "idle"
    /\ r_query' = <<0, 0>>
    /\ r_top_k' = 0
    /\ r_index' = Missing
    /\ r_documents' = Missing
    /\ r_labels' = <<>>
    /\ r_results' = <<>>
    /\ r_error' = "none"
    /\ UNCHANGED <<diskVars, buildVars, cleanVars, chunkVars>>

\* the query-serving process: one call after another
Serve ==
    \/ ServeQuery \/ ReadIndex \/ ReadIndexRaises \/ ReadDocs \/ ReadDocsRaises
    \/ Search \/ RetrieveExit

(***************************************************************************)
(* Specifications                                                          *)
(***************************************************************************)
DiskEmpty == embFile = Missing /\ docsFile = Missing /\ indexFile = Missing

\* the offline build job and the query-serving process on one artifact directory
Init == CleanIdle /\ ChunkIdle /\ DiskEmpty /\ BuildIdle /\ RetrieveIdle

Next == Build \/ Serve

Spec == Init /\ [][Next]_vars

\* clean_markdown_text on bounded texts
InitClean == CleanInit /\ ChunkIdle /\ DiskEmpty /\ BuildIdle /\ RetrieveIdle

NextClean == CleanFirst \/ CleanSecond

SpecClean == InitClean /\ [][NextClean]_vars

\* split_into_chunks on bounded texts and window sizes
InitChunk == CleanIdle /\ ChunkInit /\ DiskEmpty /\ BuildIdle /\ RetrieveIdle

NextChunk == SplitIntoChunks

SpecChunk == InitChunk /\ [][NextChunk]_vars

\* retrieve_documents on bounded persisted corpora, no build running
MaxCorpus == 3

\* a chunk of a corpus: distinct texts longer than MinChunkChars.  The
\* embedding model is a black box, so InitRetrieve lets the rows of a
\* persisted corpus be any unit vectors; n = 0 is an index nothing was added to.
Doc(i) == [text |-> Rep("a", MinChunkChars + i), source |-> "one.md"]

InitRetrieve ==
    /\ CleanIdle /\ ChunkIdle /\ BuildIdle /\ RetrieveIdle
    /\ \/ DiskEmpty
       \/ \E n \in 0..MaxCorpus : \E vecs \in [1..n -> VecSet] :
             /\ embFile = Written(1, vecs)
             /\ docsFile = Written(1, [i \in 1..n |-> Doc(i)])
             /\ indexFile = Written(1, IndexAdd(vecs))

\* docs.pkl is present whenever faiss.index is, so ReadDocs never raises here
NextRetrieve ==
    \/ RetrieveStart \/ ReadIndex \/ ReadIndexRaises \/ ReadDocs
    \/ Search \/ RetrieveExit

SpecRetrieve == InitRetrieve /\ [][NextRetrieve]_vars

(***************************************************************************)
(* Properties of clean_markdown_text (checked under SpecClean)             *)
(***************************************************************************)
\* C8: idempotent cleaning: for every text t, cleaning the cleaned text
\* gives the cleaned text again, clean(clean(t)) = clean(t).
C8_IdempotentCleaning == c_pc = "twice" => c_twice = c_once

(***************************************************************************)
(* Properties of split_into_chunks (checked under SpecChunk)               *)
(***************************************************************************)
S_Sections == SplitSections(s_text)

\* the words of a list of chunks, in order
ChunkWords(chunks) == Concat([i \in 1..Len(chunks) |-> SplitWords(chunks[i])])

\* the number of windows of at most w words that cover n words
WindowCount(n, w) == (n + w - 1) \div w

\* the k-th (1-based) consecutive window of at most w words
Window(words, k, w) ==
    SubSeq(words, (k - 1) * w + 1, IF k * w < Len(words) THEN k * w ELSE Len(words))

\* a window is kept iff its trimmed length is more than 50 characters
WindowKept(words, k, w) == Len(Strip(JoinSpace(Window(words, k, w)))) > MinChunkChars

\* the elements of seq at the positions P, in increasing order of position
Restrict(seq, P) ==
    [i \in 1..Cardinality(P) |->
        seq[CHOOSE p \in P : Cardinality({q \in P : q < p}) = i - 1]]

\* the positions of the words that lie in a kept window
KeptPositions(words, w) ==
    {p \in 1..Len(words) : WindowKept(words, ((p - 1) \div w) + 1, w)}

\* C7 as stated: for every section, the words of the chunks output for it
\* are the section's word sequence, nothing dropped or duplicated.
C7_ChunkOrderPreservation ==
    s_pc = "done" =>
        \A k \in 1..Len(S_Sections) :
            ChunkWords(s_per_section[k]) = SplitWords(S_Sections[k])

\* C7 as amended: for every section, the words of the chunks output for it
\* are, in original order and without duplication, the section's words minus
\* the words of the windows whose trimmed length is at most 50 characters; so
\* the section is reconstructed exactly when no window of it is that short.
C7_KeptWindowsPreserved ==
    s_pc = "done" =>
        \A k \in 1..Len(S_Sections) :
            LET words == SplitWords(S_Sections[k])
            IN  /\ ChunkWords(s_per_section[k]) =
                       Restrict(words, KeptPositions(words, s_size))
                /\ KeptPositions(words, s_size) = 1..Len(words)
                       => ChunkWords(s_per_section[k]) = words

\* a section split into several windows of which one is kept and a short
\* last one is dropped
C7_Witness ==
    /\ s_pc = "done"
    /\ \E k \in 1..Len(S_Sections) :
          LET words == SplitWords(S_Sections[k])
              n == WindowCount(Len(words), s_size)
          IN  /\ n >= 2
              /\ WindowKept(words, 1, s_size)
              /\ ~WindowKept(words, n, s_size)
              /\ Len(s_per_section[k]) >= 1

\* the chunks a section must yield: its kept windows, joined, in window order
ExpectedSectionChunks(section, w) ==
    LET words == SplitWords(section)
        kept == {k \in 1..WindowCount(Len(words), w) : WindowKept(words, k, w)}
    IN  Restrict([k \in 1..WindowCount(Len(words), w) |-> JoinSpace(Window(words, k, w))],
                 kept)

\* C9: the result is exactly, in section order and then window order, the
\* consecutive non-overlapping windows of at most w words of each section,
\* a window being kept iff its trimmed length exceeds 50 characters; every
\* chunk has at most w words, a section without words yields no chunk and a
\* section of fewer than w words yields at most one.
C9_WindowsExactly ==
    s_pc = "done" =>
        /\ s_chunks =
               Concat([k \in 1..Len(S_Sections) |->
                          ExpectedSectionChunks(S_Sections[k], s_size)])
        /\ \A i \in 1..Len(s_chunks) :
               /\ Len(SplitWords(s_chunks[i])) <= s_size
               /\ Len(Strip(s_chunks[i])) > MinChunkChars
        /\ \A k \in 1..Len(S_Sections) :
               /\ SplitWords(S_Sections[k]) = <<>> => s_per_section[k] = <<>>
               /\ Len(SplitWords(S_Sections[k])) < s_size => Len(s_per_section[k]) <= 1

\* two sections, the first with a window of exactly 50 characters (dropped),
\* the second yielding a chunk
C9_Witness ==
    /\ s_pc = "done"
    /\ Len(S_Sections) >= 2
    /\ \E k \in 1..WindowCount(Len(SplitWords(S_Sections[1])), s_size) :
          Len(JoinSpace(Window(SplitWords(S_Sections[1]), k, s_size))) = MinChunkChars
    /\ s_per_section[1] = <<>>
    /\ Len(s_per_section[2]) >= 1
    /\ Len(s_chunks) >= 1

(***************************************************************************)
(* Properties of retrieve_documents on a consistent persisted corpus       *)
(* (checked under SpecRetrieve)                                            *)
(***************************************************************************)
\* the call is over, and it had loaded the index and the corpus metadata
R_Finished ==
    /\ r_pc \in {"returned", "raised"}
    /\ r_index.state = "ok"
    /\ r_documents.state = "ok"

R_CorpusSize == Len(r_documents.data)

\* the score of a returned chunk: the inner product of the query with the
\* embedding of that corpus entry (the texts of a corpus are distinct)
R_Score(doc) ==
    Dot(r_query, r_index.data[CHOOSE i \in 1..R_CorpusSize : r_documents.data[i] = doc])

\* C1: for a persisted corpus of n >= 1 chunks and top_k >= 1 the call
\* returns exactly min(top_k, n) chunks, each available chunk at most once,
\* without padding entries and without an error.
C1_TopKBounded ==
    (R_Finished /\ R_CorpusSize >= 1) =>
        /\ r_pc = "returned"
        /\ Len(r_results) = (IF r_top_k < R_CorpusSize THEN r_top_k ELSE R_CorpusSize)
        /\ \A i, j \in 1..Len(r_results) : i # j => r_results[i] # r_results[j]

\* C3: on an index of zero vectors with empty corpus metadata the call
\* returns the empty sequence for every top_k >= 1 and raises no error.
C3_EmptyCorpusReturnsEmpty ==
    (R_Finished /\ Len(r_index.data) = 0 /\ R_CorpusSize = 0) =>
        /\ r_pc = "returned"
        /\ r_results = <<>>

\* C4: the returned chunks are ordered by non-increasing inner product with
\* the query, and no corpus entry left out scores higher than a returned one.
C4_ScoresNonIncreasing ==
    (R_Finished /\ r_pc = "returned") =>
        /\ \A j \in 1..(Len(r_results) - 1) :
               R_Score(r_results[j]) >= R_Score(r_results[j + 1])
        /\ \A i \in 1..R_CorpusSize :
               (\A j \in 1..Len(r_results) : r_results[j] # r_documents.data[i])
                   => \A j \in 1..Len(r_results) :
                          R_Score(r_documents.data[i]) <= R_Score(r_results[j])

(***************************************************************************)
(* Properties of build_index and of retrieval beside it (checked under     *)
(* Spec)                                                                   *)
(***************************************************************************)
B_Ended == b_pc \in {"done", "failed"}

\* all three artifacts were written completely by the current run
B_AllFromThisRun ==
    /\ embFile.state = "ok" /\ embFile.run = b_run
    /\ docsFile.state = "ok" /\ docsFile.run = b_run
    /\ indexFile.state = "ok" /\ indexFile.run = b_run

\* all three artifacts are as the current run found them
B_AllUntouched == Disk = b_before

\* C2: after any run of build_index, completed or failed at any step, the
\* three artifacts on disk are all from this run or all untouched by it.
C2_AllThreeOrNone == B_Ended => (B_AllFromThisRun \/ B_AllUntouched)

\* ingestion finds no documents, or meets a file that is not UTF-8
B_IngestFails ==
    \/ Ingested[b_dir].error # "none"
    \/ Ingested[b_dir].documents = <<>>

\* C5: when ingestion finds no documents or cannot decode a source file, the
\* build fails with the error raised to its caller and the three artifacts
\* are left exactly as they were before the run.
C5_IngestFailureWritesNothing ==
    (b_pc \notin {"idle", "ingest"} /\ B_IngestFails) =>
        /\ b_pc = "failed"
        /\ b_error \in {"RuntimeError", "UnicodeDecodeError"}
        /\ B_AllUntouched

\* a run that fails in ingestion on top of the artifacts of a completed build
C5_Witness ==
    /\ b_pc = "failed"
    /\ B_IngestFails
    /\ b_error = "UnicodeDecodeError"
    /\ b_before.index.state = "ok"
    /\ b_before.docs.state = "ok"
    /\ b_before.emb.state = "ok"

\* C6: after every completed run, for the ingested corpus of size n the
\* persisted matrix has n rows, the persisted metadata n entries and the
\* persisted index n vectors, and row i and vector i are the embedding of
\* the text of corpus entry i.
C6_RowOrder ==
    b_pc = "done" =>
        LET corpus == Ingested[b_dir].documents
            n == Len(corpus)
        IN  /\ embFile.state = "ok" /\ docsFile.state = "ok" /\ indexFile.state = "ok"
            /\ Len(embFile.data) = n
            /\ Len(docsFile.data) = n
            /\ Len(indexFile.data) = n
            /\ docsFile.data = corpus
            /\ \A i \in 1..n :
                   /\ embFile.data[i] = Embed(docsFile.data[i].text)
                   /\ indexFile.data[i] = Embed(docsFile.data[i].text)

\* a completed rebuild of a corpus of three chunks with different embeddings
C6_Witness ==
    /\ b_pc = "done"
    /\ b_run >= 2
    /\ Len(docsFile.data) = 3
    /\ indexFile.data[1] # indexFile.data[2]
    /\ indexFile.data[2] # indexFile.data[3]
    /\ b_before.index.state = "ok"

\* C10: whenever a retrieval call runs beside a build run that rewrites the
\* artifacts, the index and the corpus metadata the call loaded are from the
\* same build, and the call never indexes past the end of the loaded corpus.
C10_LoadedFromSameBuild ==
    (/\ r_pc \in {"search", "returned", "raised"}
     /\ r_index.state = "ok"
     /\ r_documents.state = "ok"
     /\ b_pc \in {"save_embeddings", "save_docs", "write_index", "done"}) =>
        /\ r_index.run = r_documents.run
        /\ r_error # "IndexError"

====
